---- MODULE Spec2Model ----
(***************************************************************************)
(* Model of convex/googleDrive.ts: the domain-wide sharing audit           *)
(* (getDomainUsers, getPubliclySharedFiles, runDomainAudit), the audit     *)
(* store (storeAuditResults, getAuditHistory, getAuditById) and the        *)
(* connection records (createDriveConnection, deactivateDriveConnection,   *)
(* getUserDriveConnections, testDriveConnection).                          *)
(*                                                                         *)
(* The Google directory and file services and the Convex database are the  *)
(* environment.  A table is the sequence of its documents in insertion     *)
(* order; the document id is the position.  A page token is the number of  *)
(* the page it names; 0 stands for "no token" (undefined, falsy).  The     *)
(* result of a call is a record: [id |-> ...] for a document id, [docs |->  *)
(* ...] for a sequence of documents, the document itself or [null |-> TRUE] *)
(* for a lookup.  The last call of a connection mutation keeps the table   *)
(* as it was before.                                                       *)
(***************************************************************************)
EXTENDS Integers, Sequences, FiniteSets, TLC

VARIABLES
    serviceKey,        \* process.env.GOOGLE_SERVICE_ACCOUNT_KEY: "missing", "malformed", "valid"
    now,               \* the server clock read by Date.now()
    driveAudits,       \* table "driveAudits"
    driveConnections,  \* table "driveConnections"
    runs,              \* the runDomainAudit calls: locals, position, environment and history
    lastCall           \* the last store/connection/test call: its name, arguments and result

vars == <<serviceKey, now, driveAudits, driveConnections, runs, lastCall>>

----------------------------------------------------------------------------
(* Bounds of the model *)

MaxAudits == 2      \* documents in driveAudits (Spec)
MaxRunAudits == 1   \* documents in driveAudits (SpecAudit)
MaxConns == 2       \* documents in driveConnections
MaxClock == 1       \* ticks of the clock
HistoryBase == 49   \* documents in driveAudits at the start of SpecHistory
HistoryExtra == 3   \* documents SpecHistory adds to them

(* Program constants *)

DirMaxResults == 500    \* admin.users.list maxResults
FilesPageSize == 1000   \* drive.files.list pageSize
HistoryLimit == 50      \* getAuditHistory take(50)
TestMaxResults == 1     \* testDriveConnection maxResults

RunIds == {1, 2}       \* the runDomainAudit calls
Sequential == {1}      \* one call at a time
NoToken == 0

----------------------------------------------------------------------------
(* Inputs and environment: small concrete universes *)

Domains == {"x.com", "y.org"}
AdminUsers == {"admin@x.com", "a@x.com"}

\* Users as the directory service returns them
RawUser(e, n, s) == [primaryEmail |-> e, fullName |-> n, id |-> e, suspended |-> s]
uA == RawUser("a@x.com", "A", FALSE)
uB == RawUser("b@x.com", "B", FALSE)
uS == RawUser("s@x.com", "S", TRUE)

\* A directory is the sequence of the pages the service serves for it
Directories ==
    { << <<>> >>,
      << <<uA>> >>,
      << <<uS, uA>>, <<>>, <<uB>> >> }

\* Permission entries and files as the file service returns them
Perm(t, r, d) == [type |-> t, role |-> r, domain |-> d]
pAnyone == Perm("anyone", "reader", "")
pDomX == Perm("domain", "reader", "x.com")
pDomY == Perm("domain", "writer", "y.org")
pUser == Perm("user", "owner", "")
pGroup == Perm("group", "writer", "")

RawFile(i, o, p) ==
    [id |-> i, name |-> i, webViewLink |-> i, modifiedTime |-> 0, owners |-> o, permissions |-> p]
fAnyone == RawFile("f1", <<"o@x.com">>, <<pUser, pAnyone>>)
fDomX == RawFile("f2", <<>>, <<pDomX>>)
fDomY == RawFile("f3", <<"o@x.com">>, <<pUser, pDomY>>)
fUser == RawFile("f4", <<"o@x.com">>, <<pUser, pGroup>>)
fEmpty == RawFile("f5", <<>>, <<>>)
\* a file whose permissions field is absent
fNone == [id |-> "f6", name |-> "f6", webViewLink |-> "f6", modifiedTime |-> 0, owners |-> <<>>]

\* A file listing is the sequence of the pages the service serves for one user
FileListings ==
    { << <<>> >>,
      << <<fUser, fAnyone, fNone>> >>,
      << <<fDomX, fEmpty>>, <<fDomY, fAnyone>> >> }

----------------------------------------------------------------------------
(* Helpers *)

RECURSIVE SumFileCount(_)
SumFileCount(results) ==
    IF results = <<>> THEN 0
    ELSE results[1].fileCount + SumFileCount(Tail(results))

RECURSIVE Flatten(_)
Flatten(pages) ==
    IF pages = <<>> THEN <<>> ELSE pages[1] \o Flatten(Tail(pages))

Reverse(s) == [k \in 1..Len(s) |-> s[Len(s) + 1 - k]]
Take(s, n) == IF Len(s) <= n THEN s ELSE SubSeq(s, 1, n)
Range(s) == {s[k] : k \in 1..Len(s)}

----------------------------------------------------------------------------
(* The external services *)

PageOf(token) == IF token = NoToken THEN 1 ELSE token

\* The page a listing serves for a token, and the token of the page after it
ServicePage(pages, token) ==
    [items |-> pages[PageOf(token)],
     nextPageToken |-> IF PageOf(token) < Len(pages) THEN PageOf(token) + 1 ELSE NoToken]

----------------------------------------------------------------------------
(* getDomainUsers *)

\* users.map(...) of getDomainUsers
MapUser(user) ==
    [email |-> user.primaryEmail, name |-> user.fullName, id |-> user.id,
     suspended |-> user.suspended]

DirectoryRequest(run) ==
    [api |-> "admin.users.list", subject |-> run.adminUser, domain |-> run.domain,
     maxResults |-> DirMaxResults, pageToken |-> run.dirPageToken]

----------------------------------------------------------------------------
(* getPubliclySharedFiles *)

HasPermissions(file) == "permissions" \in DOMAIN file

\* Mutant of IsPubliclyShared: a domain permission counts whatever its domain
IsPubliclySharedAnyDomain(file, domain) ==
    /\ HasPermissions(file)
    /\ \E k \in 1..Len(file.permissions) :
          file.permissions[k].type \in {"anyone", "domain"}

\* the filter callback: file.permissions?.some(...)
IsPubliclyShared(file, domain) ==
    /\ HasPermissions(file)
    /\ \E k \in 1..Len(file.permissions) :
          \/ file.permissions[k].type = "anyone"
          \/ /\ file.permissions[k].type = "domain"
             /\ file.permissions[k].domain = domain

FilterPublic(pageFiles, domain) ==
    SelectSeq(pageFiles, LAMBDA file : IsPubliclyShared(file, domain))

\* files.map(...) of getPubliclySharedFiles
MapFile(file, userEmail) ==
    LET base == [id |-> file.id, name |-> file.name, webViewLink |-> file.webViewLink,
                 modifiedTime |-> file.modifiedTime,
                 owner |-> IF file.owners # <<>> THEN file.owners[1] ELSE userEmail]
    IN  IF HasPermissions(file)
        THEN [id |-> base.id, name |-> base.name, webViewLink |-> base.webViewLink,
              modifiedTime |-> base.modifiedTime, owner |-> base.owner,
              permissions |-> [k \in 1..Len(file.permissions) |->
                                 [type |-> file.permissions[k].type,
                                  role |-> file.permissions[k].role,
                                  domain |-> file.permissions[k].domain]]]
        ELSE base

MapFiles(files, userEmail) == [k \in 1..Len(files) |-> MapFile(files[k], userEmail)]

\* Mutant of FilesRequest: the credential impersonates the administrator
FilesRequestAsAdmin(run) ==
    [api |-> "drive.files.list", subject |-> run.adminUser,
     q |-> "visibility='anyoneCanFind' or visibility='anyoneWithLink'",
     pageSize |-> FilesPageSize, pageToken |-> run.filesPageToken]

FilesRequest(run) ==
    [api |-> "drive.files.list", subject |-> run.users[run.i].email,
     q |-> "visibility='anyoneCanFind' or visibility='anyoneWithLink'",
     pageSize |-> FilesPageSize, pageToken |-> run.filesPageToken]

----------------------------------------------------------------------------
(* runDomainAudit: one record per call.                                     *)
(*   pc             "idle", "listing" (in getDomainUsers), "loop" (at the   *)
(*                  head of the for loop), "scanning" (in                   *)
(*                  getPubliclySharedFiles), "done", "failed", "abandoned"  *)
(*   dirUsers, dirPageToken     users and pageToken of getDomainUsers       *)
(*   users, i                   the listing and the loop position           *)
(*   files, filesPageToken      files and pageToken of                      *)
(*                              getPubliclySharedFiles                      *)
(*   auditResults, totalFiles   the accumulators of runDomainAudit          *)
(*   ret                        the value returned or the error thrown      *)
(* Environment of the call: directory (the pages the directory service      *)
(* serves), listing (the pages the file service serves for the user being   *)
(* scanned), fetched (the pages of it served so far).  History of the call: *)
(* requests (every request issued, and whether the service answered it),    *)
(* scans (the outcome of each scan: the files returned, or the files        *)
(* collected when it failed), stored (ids of the documents the call         *)
(* inserted), startedAt (the number of documents in driveAudits when the    *)
(* call began).                                                             *)

IdleRun ==
    [pc |-> "idle", domain |-> "", adminUser |-> "",
     dirUsers |-> <<>>, dirPageToken |-> NoToken,
     users |-> <<>>, i |-> 0,
     files |-> <<>>, filesPageToken |-> NoToken,
     auditResults |-> <<>>, totalFiles |-> 0,
     ret |-> [none |-> TRUE],
     directory |-> <<>>, listing |-> <<>>, fetched |-> 0,
     requests |-> <<>>, scans |-> <<>>, stored |-> <<>>, startedAt |-> 0]

NotRunning(run) == run.pc \in {"idle", "done", "failed", "abandoned"}

\* The call enters getDomainUsers; initializeAdminService throws without a usable key
EnterRun(domain, adminUser, directory) ==
    IF serviceKey # "valid"
    THEN [IdleRun EXCEPT !.pc = "failed", !.domain = domain, !.adminUser = adminUser,
                         !.ret = [error |-> "Domain audit failed"],
                         !.startedAt = Len(driveAudits)]
    ELSE [IdleRun EXCEPT !.pc = "listing", !.domain = domain, !.adminUser = adminUser,
                         !.directory = directory, !.startedAt = Len(driveAudits)]

StartRun(r, domains, adminUsers, directories) ==
    /\ NotRunning(runs[r])
    /\ \E domain \in domains, adminUser \in adminUsers, directory \in directories :
          runs' = [runs EXCEPT ![r] = EnterRun(domain, adminUser, directory)]
    /\ UNCHANGED <<serviceKey, now, driveAudits, driveConnections, lastCall>>

\* Mutant of OnDirectoryPage: the loop does not follow nextPageToken
OnDirectoryPageFirstOnly(run) ==
    LET response == ServicePage(run.directory, run.dirPageToken)
        users == run.dirUsers \o response.items
    IN  [run EXCEPT !.pc = "loop", !.dirUsers = <<>>, !.dirPageToken = NoToken,
                    !.users = [k \in 1..Len(users) |-> MapUser(users[k])],
                    !.i = 1, !.auditResults = <<>>, !.totalFiles = 0,
                    !.requests = Append(@, [request |-> DirectoryRequest(run), ok |-> TRUE])]

\* A page of admin.users.list arrives: push its users, follow the token
OnDirectoryPage(run) ==
    LET response == ServicePage(run.directory, run.dirPageToken)
        users == run.dirUsers \o response.items
        sent == Append(run.requests, [request |-> DirectoryRequest(run), ok |-> TRUE])
    IN  IF response.nextPageToken # NoToken
        THEN [run EXCEPT !.dirUsers = users, !.dirPageToken = response.nextPageToken,
                         !.requests = sent]
        ELSE [run EXCEPT !.pc = "loop", !.dirUsers = <<>>, !.dirPageToken = NoToken,
                         !.users = [k \in 1..Len(users) |-> MapUser(users[k])],
                         !.i = 1, !.auditResults = <<>>, !.totalFiles = 0,
                         !.requests = sent]

DirectoryPage(r) ==
    /\ runs[r].pc = "listing"
    /\ runs' = [runs EXCEPT ![r] = OnDirectoryPage(runs[r])]
    /\ UNCHANGED <<serviceKey, now, driveAudits, driveConnections, lastCall>>

\* Mutant of OnDirectoryError: the users of the pages fetched so far are the listing
OnDirectoryErrorPartial(run) ==
    [run EXCEPT !.pc = "loop", !.dirUsers = <<>>, !.dirPageToken = NoToken,
                !.users = [k \in 1..Len(run.dirUsers) |-> MapUser(run.dirUsers[k])],
                !.i = 1, !.auditResults = <<>>, !.totalFiles = 0,
                !.requests = Append(@, [request |-> DirectoryRequest(run), ok |-> FALSE])]

\* A page request of admin.users.list fails: getDomainUsers rethrows, runDomainAudit rethrows
OnDirectoryError(run) ==
    [run EXCEPT !.pc = "failed", !.dirUsers = <<>>, !.dirPageToken = NoToken,
                !.requests = Append(@, [request |-> DirectoryRequest(run), ok |-> FALSE]),
                !.ret = [error |-> "Domain audit failed"]]

DirectoryError(r) ==
    /\ runs[r].pc = "listing"
    /\ runs' = [runs EXCEPT ![r] = OnDirectoryError(runs[r])]
    /\ UNCHANGED <<serviceKey, now, driveAudits, driveConnections, lastCall>>

\* Mutant of IsSkipped: suspended users are scanned like the others
IsSkippedNever(user) == FALSE

\* if (user.suspended) continue
IsSkipped(user) == user.suspended

AtUser(run) == run.pc = "loop" /\ run.i <= Len(run.users)

SkipUser(r) ==
    /\ AtUser(runs[r])
    /\ IsSkipped(runs[r].users[runs[r].i])
    /\ runs' = [runs EXCEPT ![r].i = @ + 1]
    /\ UNCHANGED <<serviceKey, now, driveAudits, driveConnections, lastCall>>

\* Mutant of OnScanError: the failure of one scan ends the whole run
OnScanErrorAbort(run) ==
    [run EXCEPT !.pc = "failed",
                !.files = <<>>, !.filesPageToken = NoToken,
                !.listing = <<>>, !.fetched = 0,
                !.scans = Append(@, [user |-> run.users[run.i].email, ok |-> FALSE,
                                     partial |-> run.files]),
                !.ret = [error |-> "Domain audit failed"]]

\* The catch around the scan of one user: log and go on with the next user
OnScanError(run) ==
    [run EXCEPT !.pc = "loop", !.i = @ + 1,
                !.files = <<>>, !.filesPageToken = NoToken,
                !.listing = <<>>, !.fetched = 0,
                !.scans = Append(@, [user |-> run.users[run.i].email, ok |-> FALSE,
                                     partial |-> run.files])]

\* The call enters getPubliclySharedFiles for users[i]; JSON.parse throws without a usable key
EnterScan(run, listing) ==
    IF serviceKey # "valid"
    THEN OnScanError(run)
    ELSE [run EXCEPT !.pc = "scanning", !.files = <<>>, !.filesPageToken = NoToken,
                     !.listing = listing, !.fetched = 0]

StartScan(r, listings) ==
    /\ AtUser(runs[r])
    /\ ~IsSkipped(runs[r].users[runs[r].i])
    /\ \E listing \in listings :
          runs' = [runs EXCEPT ![r] = EnterScan(runs[r], listing)]
    /\ UNCHANGED <<serviceKey, now, driveAudits, driveConnections, lastCall>>

\* Mutant of AddFiles: counts the scanned user, not the user's files
AddFilesPerUser(totalFiles, userFiles) == totalFiles + 1

\* totalFiles += userFiles.length
AddFiles(totalFiles, userFiles) == totalFiles + Len(userFiles)

\* Mutant of PushResult: an entry is pushed for every scanned user
PushResultAlways(auditResults, user, userFiles) ==
    Append(auditResults, [user |-> user.email, userName |-> user.name,
                          fileCount |-> Len(userFiles), files |-> userFiles])

\* Mutant of PushResult: the entry is put in front (unshift)
PushResultFront(auditResults, user, userFiles) ==
    IF Len(userFiles) > 0
    THEN << [user |-> user.email, userName |-> user.name,
             fileCount |-> Len(userFiles), files |-> userFiles] >> \o auditResults
    ELSE auditResults

\* if (userFiles.length > 0) auditResults.push({...})
PushResult(auditResults, user, userFiles) ==
    IF Len(userFiles) > 0
    THEN Append(auditResults, [user |-> user.email, userName |-> user.name,
                               fileCount |-> Len(userFiles), files |-> userFiles])
    ELSE auditResults

\* A page of drive.files.list arrives: filter, push, follow the token; after the last
\* page the scan returns and the loop body adds its files
OnFilesPage(run) ==
    LET response == ServicePage(run.listing, run.filesPageToken)
        files == run.files \o FilterPublic(response.items, run.domain)
        sent == Append(run.requests, [request |-> FilesRequest(run), ok |-> TRUE])
        user == run.users[run.i]
        userFiles == MapFiles(files, user.email)
    IN  IF response.nextPageToken # NoToken
        THEN [run EXCEPT !.files = files, !.filesPageToken = response.nextPageToken,
                         !.fetched = @ + 1, !.requests = sent]
        ELSE [run EXCEPT !.pc = "loop", !.i = @ + 1,
                         !.files = <<>>, !.filesPageToken = NoToken,
                         !.listing = <<>>, !.fetched = 0,
                         !.totalFiles = AddFiles(@, userFiles),
                         !.auditResults = PushResult(@, user, userFiles),
                         !.requests = sent,
                         !.scans = Append(@, [user |-> user.email, ok |-> TRUE,
                                              listing |-> run.listing,
                                              files |-> userFiles])]

FilesPage(r) ==
    /\ runs[r].pc = "scanning"
    /\ runs' = [runs EXCEPT ![r] = OnFilesPage(runs[r])]
    /\ UNCHANGED <<serviceKey, now, driveAudits, driveConnections, lastCall>>

\* Mutant of OnFilesError: the files of the pages fetched so far are returned
OnFilesErrorKeepPartial(run) ==
    LET user == run.users[run.i]
        userFiles == MapFiles(run.files, user.email)
    IN  OnScanError([run EXCEPT
                       !.requests = Append(@, [request |-> FilesRequest(run), ok |-> FALSE]),
                       !.totalFiles = AddFiles(@, userFiles),
                       !.auditResults = PushResult(@, user, userFiles)])

\* A page request of drive.files.list fails: getPubliclySharedFiles rethrows
OnFilesError(run) ==
    OnScanError([run EXCEPT
                   !.requests = Append(@, [request |-> FilesRequest(run), ok |-> FALSE])])

FilesError(r) ==
    /\ runs[r].pc = "scanning"
    /\ runs' = [runs EXCEPT ![r] = OnFilesError(runs[r])]
    /\ UNCHANGED <<serviceKey, now, driveAudits, driveConnections, lastCall>>

----------------------------------------------------------------------------
(* The audit store *)

\* Mutant of InsertAudit: the new document takes the place of the last one of its domain
InsertAuditPerDomain(table, args, time) ==
    LET doc == [_id |-> Len(table) + 1, domain |-> args.domain,
                totalUsers |-> args.totalUsers, totalFiles |-> args.totalFiles,
                results |-> args.results, createdAt |-> time]
        same == {k \in 1..Len(table) : table[k].domain = args.domain}
    IN  IF same = {} THEN Append(table, doc)
        ELSE Append([k \in 1..(Len(table) - 1) |->
                        IF k < CHOOSE m \in same : \A j \in same : j <= m
                        THEN table[k] ELSE table[k + 1]],
                    doc)

\* ctx.db.insert("driveAudits", {...args, createdAt: Date.now()})
InsertAudit(table, args, time) ==
    Append(table, [_id |-> Len(table) + 1, domain |-> args.domain,
                   totalUsers |-> args.totalUsers, totalFiles |-> args.totalFiles,
                   results |-> args.results, createdAt |-> time])

\* Arguments of direct calls of the public mutation storeAuditResults
StoreArgs ==
    { [domain |-> "x.com", totalUsers |-> 0, totalFiles |-> 0, results |-> <<>>],
      [domain |-> "y.org", totalUsers |-> 1, totalFiles |-> 3, results |-> <<>>] }

StoreAuditResults(limit) ==
    /\ Len(driveAudits) < limit
    /\ \E args \in StoreArgs :
          /\ driveAudits' = InsertAudit(driveAudits, args, now)
          /\ lastCall' = [op |-> "storeAuditResults", args |-> args,
                          ret |-> [id |-> Len(driveAudits) + 1]]
    /\ UNCHANGED <<serviceKey, now, driveConnections, runs>>

\* Mutant of RunStoreArgs: totalFiles is a counter shared by the calls in flight
RunStoreArgsShared(run) ==
    [domain |-> run.domain, totalUsers |-> Len(run.users),
     totalFiles |-> LET RECURSIVE Sum(_)
                        Sum(ids) == IF ids = {} THEN 0
                                    ELSE LET r == CHOOSE x \in ids : TRUE
                                         IN  runs[r].totalFiles + Sum(ids \ {r})
                    IN  Sum({r \in RunIds : runs[r].pc \in {"loop", "scanning"}}),
     results |-> run.auditResults]

\* The arguments runDomainAudit passes to storeAuditResults
RunStoreArgs(run) ==
    [domain |-> run.domain, totalUsers |-> Len(run.users),
     totalFiles |-> run.totalFiles, results |-> run.auditResults]

\* Mutant of RunSummary: usersWithPublicFiles counts the users listed
RunSummaryAllUsers(run, auditId) ==
    [auditId |-> auditId, totalUsers |-> Len(run.users),
     usersWithPublicFiles |-> Len(run.users),
     totalFiles |-> run.totalFiles, results |-> run.auditResults]

\* The value runDomainAudit returns
RunSummary(run, auditId) ==
    [auditId |-> auditId, totalUsers |-> Len(run.users),
     usersWithPublicFiles |-> Len(run.auditResults),
     totalFiles |-> run.totalFiles, results |-> run.auditResults]

\* Mutant of LoopDone: the loop ends after the first user scanned
LoopDoneEarly(run) == run.pc = "loop" /\ (run.i > Len(run.users) \/ run.scans # <<>>)

\* for (const user of users) has no user left
LoopDone(run) == run.pc = "loop" /\ run.i > Len(run.users)

\* The loop is over: runMutation(storeAuditResults) and return
StoreRun(r, limit) ==
    /\ LoopDone(runs[r])
    /\ Len(driveAudits) < limit
    /\ driveAudits' = InsertAudit(driveAudits, RunStoreArgs(runs[r]), now)
    /\ runs' = [runs EXCEPT ![r].pc = "done",
                            ![r].ret = RunSummary(runs[r], Len(driveAudits) + 1),
                            ![r].stored = Append(@, Len(driveAudits) + 1)]
    /\ UNCHANGED <<serviceKey, now, driveConnections, lastCall>>

\* The caller gives the call up while it awaits a page, a scan or the mutation
AbandonRun(r) ==
    /\ runs[r].pc \in {"listing", "loop", "scanning"}
    /\ runs' = [runs EXCEPT ![r].pc = "abandoned"]
    /\ UNCHANGED <<serviceKey, now, driveAudits, driveConnections, lastCall>>

\* if (args.domain): the filter is used when the argument is present and not ""
HasDomainFilter(args) == "domain" \in DOMAIN args /\ args.domain # ""

\* Mutant of AuditHistory: the default, ascending order
AuditHistoryAscending(table, args) ==
    IF HasDomainFilter(args)
    THEN Take(SelectSeq(table, LAMBDA doc : doc.domain = args.domain), HistoryLimit)
    ELSE Take(table, HistoryLimit)

\* query("driveAudits")[.filter(domain)].order("desc").take(50)
AuditHistory(table, args) ==
    IF HasDomainFilter(args)
    THEN Take(Reverse(SelectSeq(table, LAMBDA doc : doc.domain = args.domain)), HistoryLimit)
    ELSE Take(Reverse(table), HistoryLimit)

HistoryArgs == {[none |-> TRUE]} \cup {[domain |-> d] : d \in Domains \cup {""}}

GetAuditHistory ==
    /\ \E args \in HistoryArgs :
          lastCall' = [op |-> "getAuditHistory", args |-> args,
                       ret |-> [docs |-> AuditHistory(driveAudits, args)]]
    /\ UNCHANGED <<serviceKey, now, driveAudits, driveConnections, runs>>

\* ctx.db.get(auditId): the document, or null
AuditById(table, auditId) ==
    IF auditId \in 1..Len(table) THEN table[auditId] ELSE [null |-> TRUE]

GetAuditById ==
    /\ \E auditId \in 1..(MaxAudits + 1) :
          lastCall' = [op |-> "getAuditById", args |-> [auditId |-> auditId],
                       ret |-> AuditById(driveAudits, auditId)]
    /\ UNCHANGED <<serviceKey, now, driveAudits, driveConnections, runs>>

\* Date.now() does not go back
Tick(limit) ==
    /\ now < limit
    /\ now' = now + 1
    /\ UNCHANGED <<serviceKey, driveAudits, driveConnections, runs, lastCall>>

----------------------------------------------------------------------------
(* The connection records *)

ConnUsers == {"user_1", "user_2"}
ConnDomains == {"x.com", ""}
ConnAdmins == {"admin@x.com", "b@x.com"}

\* Mutant of ExistingConnection: only an active connection is found
ExistingConnectionActive(table, userId, domain) ==
    LET ids == {k \in 1..Len(table) : /\ table[k].userId = userId
                                      /\ table[k].domain = domain
                                      /\ table[k].isActive}
    IN  IF ids = {} THEN 0 ELSE CHOOSE k \in ids : \A j \in ids : k <= j

\* query("driveConnections").filter(userId, domain).first(): the id, or 0 for null
ExistingConnection(table, userId, domain) ==
    LET ids == {k \in 1..Len(table) : table[k].userId = userId /\ table[k].domain = domain}
    IN  IF ids = {} THEN 0 ELSE CHOOSE k \in ids : \A j \in ids : k <= j

\* Mutant of PatchConnection: every document of the user is patched
PatchConnectionOfUser(table, id, adminEmail) ==
    [k \in 1..Len(table) |->
        IF table[k].userId = table[id].userId
        THEN [table[k] EXCEPT !.adminEmail = adminEmail, !.isActive = TRUE]
        ELSE table[k]]

\* ctx.db.patch(existing._id, {adminEmail, isActive: true})
PatchConnection(table, id, adminEmail) ==
    [table EXCEPT ![id].adminEmail = adminEmail, ![id].isActive = TRUE]

\* ctx.db.insert("driveConnections", {...})
InsertConnection(table, userId, domain, adminEmail, time) ==
    Append(table, [_id |-> Len(table) + 1, userId |-> userId, domain |-> domain,
                   adminEmail |-> adminEmail, isActive |-> TRUE, createdAt |-> time])

\* The handler of createDriveConnection: the new table and the id returned
UpsertConnection(table, userId, domain, adminEmail, time) ==
    LET existing == ExistingConnection(table, userId, domain)
    IN  IF existing # 0
        THEN [table |-> PatchConnection(table, existing, adminEmail), id |-> existing]
        ELSE [table |-> InsertConnection(table, userId, domain, adminEmail, time),
              id |-> Len(table) + 1]

CreateDriveConnection(userIds, domains, adminEmails) ==
    \E userId \in userIds, domain \in domains, adminEmail \in adminEmails :
       LET result == UpsertConnection(driveConnections, userId, domain, adminEmail, now)
       IN  /\ Len(result.table) <= MaxConns
           /\ driveConnections' = result.table
           /\ lastCall' = [op |-> "createDriveConnection",
                           args |-> [userId |-> userId, domain |-> domain,
                                     adminEmail |-> adminEmail],
                           ret |-> [id |-> result.id], before |-> driveConnections]
           /\ UNCHANGED <<serviceKey, now, driveAudits, runs>>

\* Mutant of DeactivateConnection: the flag is toggled
DeactivateConnectionToggle(table, connectionId) ==
    IF connectionId \in 1..Len(table)
    THEN [table |-> [table EXCEPT ![connectionId].isActive = ~@], ret |-> [ok |-> TRUE]]
    ELSE [table |-> table, ret |-> [error |-> "nonexistent document"]]

\* ctx.db.patch(connectionId, {isActive: false}); patch throws when the document does not exist
DeactivateConnection(table, connectionId) ==
    IF connectionId \in 1..Len(table)
    THEN [table |-> [table EXCEPT ![connectionId].isActive = FALSE], ret |-> [ok |-> TRUE]]
    ELSE [table |-> table, ret |-> [error |-> "nonexistent document"]]

DeactivateDriveConnection ==
    \E connectionId \in 1..(MaxConns + 1) :
       LET result == DeactivateConnection(driveConnections, connectionId)
       IN  /\ driveConnections' = result.table
           /\ lastCall' = [op |-> "deactivateDriveConnection",
                           args |-> [connectionId |-> connectionId], ret |-> result.ret,
                           before |-> driveConnections]
           /\ UNCHANGED <<serviceKey, now, driveAudits, runs>>

\* query("driveConnections").filter(userId).collect()
UserDriveConnections(table, userId) ==
    SelectSeq(table, LAMBDA doc : doc.userId = userId)

GetUserDriveConnections ==
    /\ \E userId \in ConnUsers :
          lastCall' = [op |-> "getUserDriveConnections", args |-> [userId |-> userId],
                       ret |-> [docs |-> UserDriveConnections(driveConnections, userId)]]
    /\ UNCHANGED <<serviceKey, now, driveAudits, driveConnections, runs>>

----------------------------------------------------------------------------
(* testDriveConnection *)

\* What the directory service may answer to the one-result request: an error, or a
\* page of at most TestMaxResults users
TestResponses ==
    { [ok |-> FALSE, users |-> <<>>],
      [ok |-> TRUE, users |-> <<>>],
      [ok |-> TRUE, users |-> <<uA>>] }

TestRequest(domain, adminUser) ==
    [api |-> "admin.users.list", subject |-> adminUser, domain |-> domain,
     maxResults |-> TestMaxResults, pageToken |-> NoToken]

\* Mutant of TestConnection: the check of the key stands before the try block
TestConnectionKeyUnguarded(domain, adminUser, response) ==
    IF serviceKey = "missing"
    THEN [ret |-> [error |-> "GOOGLE_SERVICE_ACCOUNT_KEY environment variable is required"],
          requests |-> <<>>]
    ELSE IF serviceKey # "valid"
    THEN [ret |-> [success |-> FALSE, message |-> "Connection failed"], requests |-> <<>>]
    ELSE IF ~response.ok
    THEN [ret |-> [success |-> FALSE, message |-> "Connection failed"],
          requests |-> <<TestRequest(domain, adminUser)>>]
    ELSE [ret |-> [success |-> TRUE,
                   message |-> "Successfully connected to Google Drive API",
                   userCount |-> Len(response.users)],
          requests |-> <<TestRequest(domain, adminUser)>>]

\* The handler: the result returned (an error field stands for a throw) and the
\* requests issued
TestConnection(domain, adminUser, response) ==
    IF serviceKey # "valid"
    THEN [ret |-> [success |-> FALSE, message |-> "Connection failed"], requests |-> <<>>]
    ELSE IF ~response.ok
    THEN [ret |-> [success |-> FALSE, message |-> "Connection failed"],
          requests |-> <<TestRequest(domain, adminUser)>>]
    ELSE [ret |-> [success |-> TRUE,
                   message |-> "Successfully connected to Google Drive API",
                   userCount |-> Len(response.users)],
          requests |-> <<TestRequest(domain, adminUser)>>]

TestDriveConnection(adminUsers) ==
    /\ \E domain \in Domains, adminUser \in adminUsers, response \in TestResponses :
          LET result == TestConnection(domain, adminUser, response)
          IN  lastCall' = [op |-> "testDriveConnection",
                           args |-> [domain |-> domain, adminUser |-> adminUser],
                           ret |-> result.ret, requests |-> result.requests,
                           response |-> response]
    /\ UNCHANGED <<serviceKey, now, driveAudits, driveConnections, runs>>

----------------------------------------------------------------------------
(* Specifications *)

NoCall == [op |-> "none"]

Init ==
    /\ serviceKey \in {"missing", "malformed", "valid"}
    /\ now = 0
    /\ driveAudits = <<>>
    /\ driveConnections = <<>>
    /\ runs = [r \in RunIds |-> IdleRun]
    /\ lastCall = NoCall

RunStep(ids, domains, adminUsers, directories, listings, limit) ==
    \E r \in ids :
       \/ StartRun(r, domains, adminUsers, directories)
       \/ DirectoryPage(r)
       \/ DirectoryError(r)
       \/ SkipUser(r)
       \/ StartScan(r, listings)
       \/ FilesPage(r)
       \/ FilesError(r)
       \/ StoreRun(r, limit)
       \/ AbandonRun(r)

\* The audit pipeline and the audit table
NextAudit ==
    \/ RunStep(Sequential, Domains, AdminUsers, Directories, FileListings, MaxRunAudits)
    \/ StoreAuditResults(MaxRunAudits)

SpecAudit == Init /\ [][NextAudit]_vars

\* The connection records
NextConn ==
    \/ CreateDriveConnection(ConnUsers, ConnDomains, ConnAdmins)
    \/ DeactivateDriveConnection
    \/ GetUserDriveConnections
    \/ Tick(MaxClock)

SpecConn == Init /\ [][NextConn]_vars

\* The audit history: the table holds HistoryBase documents stored earlier, the k
\* oldest for x.com and the others for y.org, two per clock value
RECURSIVE StoredEarlier(_, _)
StoredEarlier(n, k) ==
    IF n = 0 THEN <<>>
    ELSE InsertAudit(StoredEarlier(n - 1, k),
                     [domain |-> IF n <= k THEN "x.com" ELSE "y.org",
                      totalUsers |-> 0, totalFiles |-> 0, results |-> <<>>],
                     n \div 2)

InitHistory ==
    /\ serviceKey = "valid"
    /\ now = HistoryBase \div 2
    /\ \E k \in 0..HistoryBase : driveAudits = StoredEarlier(HistoryBase, k)
    /\ driveConnections = <<>>
    /\ runs = [r \in RunIds |-> IdleRun]
    /\ lastCall = NoCall

NextHistory ==
    \/ StoreAuditResults(HistoryBase + HistoryExtra)
    \/ GetAuditHistory
    \/ Tick(HistoryBase \div 2 + MaxClock)

SpecHistory == InitHistory /\ [][NextHistory]_vars

\* Every operation, on the smallest inputs
OneDirectory == { << <<uS, uA>> >> }
OneListing == { << <<fUser, fAnyone>> >> }

Next ==
    \/ RunStep(Sequential, {"x.com"}, {"admin@x.com"}, OneDirectory, OneListing, MaxAudits)
    \/ StoreAuditResults(MaxAudits)
    \/ GetAuditHistory
    \/ GetAuditById
    \/ CreateDriveConnection({"user_1"}, {"x.com"}, {"admin@x.com", "b@x.com"})
    \/ DeactivateDriveConnection
    \/ GetUserDriveConnections
    \/ TestDriveConnection({"admin@x.com"})

Spec == Init /\ [][Next]_vars

\* Two calls of runDomainAudit, one per element of RunIds, their steps interleaved
\* in any way
TwoDirectories == { << <<uA>> >>, << <<uS, uB>>, <<uA>> >> }
TwoListings == { << <<>> >>, << <<fDomX, fEmpty>>, <<fDomY, fAnyone>> >> }

NextInterleaved ==
    \E r \in RunIds :
       \/ runs[r].pc = "idle" /\
             StartRun(r, Domains, {"admin@x.com"}, TwoDirectories)
       \/ DirectoryPage(r)
       \/ DirectoryError(r)
       \/ SkipUser(r)
       \/ StartScan(r, TwoListings)
       \/ FilesPage(r)
       \/ FilesError(r)
       \/ StoreRun(r, MaxAudits)
       \/ AbandonRun(r)

SpecInterleaved == Init /\ [][NextInterleaved]_vars

----------------------------------------------------------------------------
(* Properties of runDomainAudit (SpecAudit) *)

\* The document a finished call inserted
StoredDoc(run) == driveAudits[run.ret.auditId]

\* The users of the directory listing that are not suspended, in listing order
ActiveUsers(run) == SelectSeq(Flatten(run.directory), LAMBDA user : ~user.suspended)

RECURSIVE SumOkFiles(_)
SumOkFiles(scans) ==
    IF scans = <<>> THEN 0
    ELSE (IF scans[1].ok THEN Len(scans[1].files) ELSE 0) + SumOkFiles(Tail(scans))

\* The result entries the scans call for: one per successful scan with a file
RECURSIVE ResultsOfScans(_, _)
ResultsOfScans(scans, active) ==
    IF scans = <<>> THEN <<>>
    ELSE (IF scans[1].ok /\ scans[1].files # <<>>
          THEN << [user |-> scans[1].user, userName |-> active[1].fullName,
                   fileCount |-> Len(scans[1].files), files |-> scans[1].files] >>
          ELSE <<>>)
         \o ResultsOfScans(Tail(scans), Tail(active))

\* C1: in the document a call of runDomainAudit persists, and in the summary it
\* returns, totalFiles is the sum of fileCount over the entries of results.
C1_TotalFilesIsSum ==
    \A r \in RunIds :
       runs[r].pc = "done" =>
          /\ StoredDoc(runs[r]).totalFiles = SumFileCount(StoredDoc(runs[r]).results)
          /\ runs[r].ret.totalFiles = SumFileCount(runs[r].ret.results)

\* a finished call with a failed scan, a scan without files and a scan with files
C1_Witness ==
    \E r \in RunIds :
       /\ runs[r].pc = "done"
       /\ runs[r].ret.totalFiles >= 2
       /\ \E k \in 1..Len(runs[r].scans) : ~runs[r].scans[k].ok

\* C2: scans that fail do not fail the call: a call never fails once the listing is
\* there, and a finished call has scanned every non-suspended user once, in listing
\* order, has inserted one document and returned, and the document's results and
\* totalFiles are those of the scans that succeeded.
C2_ScanFailuresTolerated ==
    \A r \in RunIds :
       /\ runs[r].pc = "failed" => runs[r].scans = <<>> /\ runs[r].users = <<>>
       /\ runs[r].pc = "done" =>
             /\ Len(runs[r].scans) = Len(ActiveUsers(runs[r]))
             /\ \A k \in 1..Len(runs[r].scans) :
                   runs[r].scans[k].user = ActiveUsers(runs[r])[k].primaryEmail
             /\ Len(runs[r].stored) = 1
             /\ runs[r].ret.auditId = runs[r].stored[1]
             /\ StoredDoc(runs[r]).results =
                   ResultsOfScans(runs[r].scans, ActiveUsers(runs[r]))
             /\ StoredDoc(runs[r]).totalFiles = SumOkFiles(runs[r].scans)

\* a finished call whose first scan failed and whose second scan found files
C2_Witness ==
    \E r \in RunIds :
       /\ runs[r].pc = "done"
       /\ Len(runs[r].scans) = 2
       /\ ~runs[r].scans[1].ok
       /\ runs[r].scans[2].ok
       /\ StoredDoc(runs[r]).totalFiles > 0

\* C3: totalUsers of the document counts the whole directory listing, suspended
\* users included; no file request is ever issued for a suspended user; every entry
\* of results is for a user of the listing that is not suspended; the suspended
\* users add nothing to totalFiles; results has at most totalUsers entries.
C3_SuspendedCountedNotScanned ==
    \A r \in RunIds :
       /\ \A k \in 1..Len(runs[r].requests) :
             runs[r].requests[k].request.api = "drive.files.list" =>
                \E user \in Range(Flatten(runs[r].directory)) :
                   /\ user.primaryEmail = runs[r].requests[k].request.subject
                   /\ ~user.suspended
       /\ runs[r].pc = "done" =>
             /\ StoredDoc(runs[r]).totalUsers = Len(Flatten(runs[r].directory))
             /\ \A k \in 1..Len(StoredDoc(runs[r]).results) :
                   \E user \in Range(Flatten(runs[r].directory)) :
                      /\ user.primaryEmail = StoredDoc(runs[r]).results[k].user
                      /\ ~user.suspended
             /\ StoredDoc(runs[r]).totalFiles = SumOkFiles(runs[r].scans)
             /\ \A k \in 1..Len(runs[r].scans) :
                   \E user \in Range(ActiveUsers(runs[r])) :
                      user.primaryEmail = runs[r].scans[k].user
             /\ Len(StoredDoc(runs[r]).results) <= StoredDoc(runs[r]).totalUsers

\* a finished call over a directory with a suspended user and two users with files
C3_Witness ==
    \E r \in RunIds :
       /\ runs[r].pc = "done"
       /\ \E user \in Range(Flatten(runs[r].directory)) : user.suspended
       /\ Len(StoredDoc(runs[r]).results) = 2
       /\ StoredDoc(runs[r]).totalUsers = 3

\* The ids of the files of a sequence
FileIds(files) == {files[k].id : k \in 1..Len(files)}

\* A file as the claim describes a publicly reachable one
HasPublicEntry(file, domain) ==
    /\ "permissions" \in DOMAIN file
    /\ \E entry \in Range(file.permissions) :
          entry.type = "anyone" \/ (entry.type = "domain" /\ entry.domain = domain)

\* C4: a file the file service returned on a page of a scan is in the scan's output
\* if and only if one of its permission entries has type "anyone", or type "domain"
\* with the audited domain; this holds of the files collected after every page and
\* of the sequence the scan returns.
C4_PublicFilesOnly ==
    \A r \in RunIds :
       /\ runs[r].pc = "scanning" =>
             /\ \A p \in 1..runs[r].fetched : \A file \in Range(runs[r].listing[p]) :
                   file.id \in FileIds(runs[r].files) <=> HasPublicEntry(file, runs[r].domain)
             /\ FileIds(runs[r].files) \subseteq
                   FileIds(Flatten(SubSeq(runs[r].listing, 1, runs[r].fetched)))
       /\ \A k \in 1..Len(runs[r].scans) :
             runs[r].scans[k].ok =>
                /\ \A file \in Range(Flatten(runs[r].scans[k].listing)) :
                      file.id \in FileIds(runs[r].scans[k].files)
                         <=> HasPublicEntry(file, runs[r].domain)
                /\ FileIds(runs[r].scans[k].files) \subseteq
                      FileIds(Flatten(runs[r].scans[k].listing))

\* a finished scan that was served a file shared with another domain only, a file
\* without permission entries and a file shared with the audited domain
C4_Witness ==
    \E r \in RunIds : \E k \in 1..Len(runs[r].scans) :
       /\ runs[r].scans[k].ok
       /\ runs[r].domain = "x.com"
       /\ FileIds(runs[r].scans[k].files) = {"f1", "f2"}
       /\ {"f3", "f5"} \subseteq FileIds(Flatten(runs[r].scans[k].listing))

\* C5: when a page request of the directory listing fails, the first or a later
\* one, the call fails with an error, it is the last request of the call, no file
\* request is issued, no user of the pages fetched before is used and the call
\* inserts no document.
C5_DirectoryFailureIsFatal ==
    \A r \in RunIds : \A k \in 1..Len(runs[r].requests) :
       (runs[r].requests[k].request.api = "admin.users.list" /\ ~runs[r].requests[k].ok) =>
          /\ runs[r].pc = "failed"
          /\ "error" \in DOMAIN runs[r].ret
          /\ k = Len(runs[r].requests)
          /\ \A j \in 1..Len(runs[r].requests) :
                runs[r].requests[j].request.api = "admin.users.list"
          /\ runs[r].users = <<>>
          /\ runs[r].scans = <<>>
          /\ runs[r].stored = <<>>

\* a call that failed on the third page of the listing, with a document in the table
C5_Witness ==
    \E r \in RunIds :
       /\ runs[r].pc = "failed"
       /\ Len(runs[r].requests) = 3
       /\ ~runs[r].requests[3].ok
       /\ driveAudits # <<>>

\* C9: a call inserts a document once, when it completes, after every
\* non-suspended user of the listing was scanned or skipped on error; a call that
\* has not completed, has failed or was abandoned has inserted none.
C9_StoredOnceOnCompletion ==
    \A r \in RunIds :
       /\ runs[r].pc # "done" => runs[r].stored = <<>>
       /\ runs[r].pc = "done" =>
             /\ Len(runs[r].stored) = 1
             /\ runs[r].stored[1] \in 1..Len(driveAudits)
             /\ Len(runs[r].scans) = Len(ActiveUsers(runs[r]))
             /\ StoredDoc(runs[r]).totalUsers = Len(Flatten(runs[r].directory))

\* a call abandoned after it had collected a result
C9_Witness ==
    \E r \in RunIds :
       /\ runs[r].pc = "abandoned"
       /\ runs[r].auditResults # <<>>
       /\ runs[r].i <= Len(runs[r].users)

----------------------------------------------------------------------------
(* Properties of the connection records (SpecConn) *)

\* The ids of the connection documents of a user and a domain
ConnectionsOf(table, userId, domain) ==
    {k \in 1..Len(table) : table[k].userId = userId /\ table[k].domain = domain}

\* C6: there is at most one connection document per (userId, domain), and after
\* createDriveConnection(u, d, a) the one document of (u, d) has adminEmail a and
\* isActive true, also when it was inactive before the call.
C6_OneConnectionPerPair ==
    /\ \A j, k \in 1..Len(driveConnections) :
          (/\ driveConnections[j].userId = driveConnections[k].userId
           /\ driveConnections[j].domain = driveConnections[k].domain) => j = k
    /\ lastCall.op = "createDriveConnection" =>
          /\ ConnectionsOf(driveConnections, lastCall.args.userId, lastCall.args.domain)
                = {lastCall.ret.id}
          /\ driveConnections[lastCall.ret.id].adminEmail = lastCall.args.adminEmail
          /\ driveConnections[lastCall.ret.id].isActive

\* createDriveConnection has just changed the administrator of a document that was
\* inactive, and the table holds a document of another pair
C6_Witness ==
    /\ lastCall.op = "createDriveConnection"
    /\ lastCall.ret.id \in 1..Len(lastCall.before)
    /\ ~lastCall.before[lastCall.ret.id].isActive
    /\ lastCall.before[lastCall.ret.id].adminEmail # lastCall.args.adminEmail
    /\ Len(driveConnections) = 2

\* A document of the table is as it was before the last call, but for the fields named
SameBut(k, fields) ==
    \A f \in DOMAIN lastCall.before[k] :
       f \notin fields => driveConnections[k][f] = lastCall.before[k][f]

\* C12: deactivateDriveConnection of an existing connection succeeds and sets
\* isActive to FALSE, leaving the other fields and the other documents as they
\* are; on a connection that is inactive already it changes nothing, and one more
\* call on the table it leaves changes nothing and succeeds.
C12_DeactivateIdempotent ==
    (/\ lastCall.op = "deactivateDriveConnection"
     /\ lastCall.args.connectionId \in 1..Len(lastCall.before)) =>
       LET id == lastCall.args.connectionId
       IN  /\ lastCall.ret = [ok |-> TRUE]
           /\ Len(driveConnections) = Len(lastCall.before)
           /\ ~driveConnections[id].isActive
           /\ SameBut(id, {"isActive"})
           /\ \A k \in 1..Len(driveConnections) : k # id => SameBut(k, {})
           /\ ~lastCall.before[id].isActive => driveConnections = lastCall.before
           /\ DeactivateConnection(driveConnections, id).table = driveConnections
           /\ DeactivateConnection(driveConnections, id).ret = [ok |-> TRUE]

\* the second of two deactivations of the same connection, with an active
\* connection beside it
C12_Witness ==
    /\ lastCall.op = "deactivateDriveConnection"
    /\ lastCall.args.connectionId \in 1..Len(lastCall.before)
    /\ ~lastCall.before[lastCall.args.connectionId].isActive
    /\ \E k \in 1..Len(driveConnections) : driveConnections[k].isActive

\* C13: createDriveConnection with a blank domain or a blank administrator ends in
\* a validation error and leaves the table as it is.
C13_BlankSetupRejected ==
    (/\ lastCall.op = "createDriveConnection"
     /\ (lastCall.args.domain = "" \/ lastCall.args.adminEmail = "")) =>
       /\ "error" \in DOMAIN lastCall.ret
       /\ driveConnections = lastCall.before

\* C19: createDriveConnection for a pair that has a document returns the id of
\* that document and changes its adminEmail and isActive only: no document is
\* added, its other fields and the other documents stay as they are; and no call
\* removes a document.
C19_UpsertKeepsTheRest ==
    /\ lastCall.op \in {"createDriveConnection", "deactivateDriveConnection"} =>
          /\ Len(driveConnections) >= Len(lastCall.before)
          /\ \A k \in 1..Len(lastCall.before) :
                /\ driveConnections[k]._id = lastCall.before[k]._id
                /\ driveConnections[k].userId = lastCall.before[k].userId
                /\ driveConnections[k].domain = lastCall.before[k].domain
                /\ driveConnections[k].createdAt = lastCall.before[k].createdAt
    /\ lastCall.op = "createDriveConnection" =>
          \A id \in ConnectionsOf(lastCall.before, lastCall.args.userId, lastCall.args.domain) :
             /\ lastCall.ret.id = id
             /\ Len(driveConnections) = Len(lastCall.before)
             /\ SameBut(id, {"adminEmail", "isActive"})
             /\ \A k \in 1..Len(driveConnections) : k # id => SameBut(k, {})

\* createDriveConnection has changed the administrator of a document created at an
\* earlier time, beside a document of the same user and another domain
C19_Witness ==
    /\ lastCall.op = "createDriveConnection"
    /\ lastCall.ret.id \in 1..Len(lastCall.before)
    /\ lastCall.before[lastCall.ret.id].adminEmail # lastCall.args.adminEmail
    /\ driveConnections[lastCall.ret.id].createdAt < now
    /\ \E k \in 1..Len(driveConnections) :
          /\ k # lastCall.ret.id
          /\ driveConnections[k].userId = lastCall.args.userId
          /\ driveConnections[k].adminEmail # lastCall.args.adminEmail

----------------------------------------------------------------------------
(* Properties of the audit history (SpecHistory) *)

Min(a, b) == IF a <= b THEN a ELSE b

\* C7: getAuditHistory without a domain returns min(50, n) documents, the most
\* recently created ones, newest first: no createdAt in the result is smaller than
\* the one after it, nor than that of a document left out.
C7_HistoryNewestFirst ==
    (lastCall.op = "getAuditHistory" /\ "domain" \notin DOMAIN lastCall.args) =>
       LET n == Len(driveAudits)
           ret == lastCall.ret.docs
       IN  /\ Len(ret) = Min(50, n)
           /\ \A k \in 1..Len(ret) : ret[k] = driveAudits[n + 1 - k]
           /\ \A k \in 1..(Len(ret) - 1) : ret[k].createdAt >= ret[k + 1].createdAt
           /\ \A k \in 1..Len(ret) : \A j \in 1..(n - Len(ret)) :
                 ret[k].createdAt >= driveAudits[j].createdAt

\* a history of 50 documents out of 52, with more than one createdAt among them
C7_Witness ==
    /\ lastCall.op = "getAuditHistory"
    /\ "domain" \notin DOMAIN lastCall.args
    /\ Len(driveAudits) = 52
    /\ Len(lastCall.ret.docs) = 50
    /\ lastCall.ret.docs[1].createdAt > lastCall.ret.docs[2].createdAt

\* C8: getAuditHistory with a domain d, whatever its value, returns documents of
\* domain d only: the up to 50 newest documents among those of domain d.
C8_FilterByAnyDomain ==
    (lastCall.op = "getAuditHistory" /\ "domain" \in DOMAIN lastCall.args) =>
       LET ofDomain == SelectSeq(driveAudits, LAMBDA doc : doc.domain = lastCall.args.domain)
           ret == lastCall.ret.docs
       IN  /\ \A k \in 1..Len(ret) : ret[k].domain = lastCall.args.domain
           /\ Len(ret) = Min(50, Len(ofDomain))
           /\ \A k \in 1..Len(ret) : ret[k] = ofDomain[Len(ofDomain) + 1 - k]

----------------------------------------------------------------------------
(* Properties of the whole system (Spec) *)

\* C10: no step of any operation changes or removes a document of driveAudits; a
\* step that changes the table adds one document at its end and leaves
\* driveConnections as it is, and a storeAuditResults call is such a step, whose
\* new document holds the arguments of the call.
C10_AuditsAppendOnly ==
    [][/\ Len(driveAudits') >= Len(driveAudits)
       /\ \A k \in 1..Len(driveAudits) : driveAudits'[k] = driveAudits[k]
       /\ driveAudits' # driveAudits =>
             /\ Len(driveAudits') = Len(driveAudits) + 1
             /\ driveConnections' = driveConnections
       /\ (lastCall' # lastCall /\ lastCall'.op = "storeAuditResults") =>
             /\ Len(driveAudits') = Len(driveAudits) + 1
             /\ lastCall'.ret.id = Len(driveAudits')
             /\ driveAudits'[lastCall'.ret.id].domain = lastCall'.args.domain
             /\ driveAudits'[lastCall'.ret.id].totalUsers = lastCall'.args.totalUsers
             /\ driveAudits'[lastCall'.ret.id].totalFiles = lastCall'.args.totalFiles
             /\ driveAudits'[lastCall'.ret.id].results = lastCall'.args.results
             /\ driveConnections' = driveConnections
       /\ (/\ lastCall' # lastCall
           /\ lastCall'.op \in {"getAuditHistory", "getAuditById", "createDriveConnection",
                                "deactivateDriveConnection", "getUserDriveConnections",
                                "testDriveConnection"}) =>
             driveAudits' = driveAudits]_vars

\* storeAuditResults has added a second document of the same domain, with a
\* connection document in the other table
C10_Witness ==
    /\ lastCall.op = "storeAuditResults"
    /\ Len(driveAudits) = 2
    /\ driveAudits[1].domain = driveAudits[2].domain
    /\ driveConnections # <<>>

\* C11: a testDriveConnection call leaves both tables as they are, issues at most
\* one directory request, for one result and without a page token, and returns a
\* result instead of throwing: success FALSE with a message when the key is
\* missing or malformed (and then no request) or when the directory call failed,
\* success TRUE with the number of users of the page otherwise.
C11_TestConnectionReadOnly ==
    [][(lastCall' # lastCall /\ lastCall'.op = "testDriveConnection") =>
          /\ driveAudits' = driveAudits
          /\ driveConnections' = driveConnections
          /\ Len(lastCall'.requests) <= 1
          /\ \A k \in 1..Len(lastCall'.requests) :
                /\ lastCall'.requests[k].api = "admin.users.list"
                /\ lastCall'.requests[k].maxResults = 1
                /\ lastCall'.requests[k].pageToken = 0
          /\ "success" \in DOMAIN lastCall'.ret
          /\ "message" \in DOMAIN lastCall'.ret
          /\ serviceKey \in {"missing", "malformed"} =>
                ~lastCall'.ret.success /\ lastCall'.requests = <<>>
          /\ (serviceKey = "valid" /\ ~lastCall'.response.ok) => ~lastCall'.ret.success
          /\ (serviceKey = "valid" /\ lastCall'.response.ok) =>
                /\ lastCall'.ret.success
                /\ lastCall'.ret.userCount = Len(lastCall'.response.users)
                /\ Len(lastCall'.requests) = 1]_vars

\* a test call without a key, with a document in each table
C11_Witness ==
    /\ lastCall.op = "testDriveConnection"
    /\ serviceKey = "missing"
    /\ ~lastCall.ret.success
    /\ driveConnections # <<>>
    /\ driveAudits # <<>>


----------------------------------------------------------------------------
(* The value runDomainAudit returns and the document it stores (SpecAudit) *)

\* C14: the value a finished call of runDomainAudit returns agrees with the
\* document it stored: auditId is the id of that document, totalUsers, totalFiles
\* and results are the document's, and usersWithPublicFiles is the number of
\* entries of results.
C14_ReturnMatchesRecord ==
    \A r \in RunIds :
       runs[r].pc = "done" =>
          /\ runs[r].ret.auditId = runs[r].stored[1]
          /\ StoredDoc(runs[r])._id = runs[r].ret.auditId
          /\ StoredDoc(runs[r]).domain = runs[r].domain
          /\ runs[r].ret.totalUsers = StoredDoc(runs[r]).totalUsers
          /\ runs[r].ret.totalFiles = StoredDoc(runs[r]).totalFiles
          /\ runs[r].ret.results = StoredDoc(runs[r]).results
          /\ runs[r].ret.usersWithPublicFiles = Len(StoredDoc(runs[r]).results)

\* a finished call over three users, one of them with public files
C14_Witness ==
    \E r \in RunIds :
       /\ runs[r].pc = "done"
       /\ runs[r].ret.totalUsers = 3
       /\ runs[r].ret.usersWithPublicFiles = 1
       /\ runs[r].ret.totalFiles > 0


\* The requests of a run to one api, in the order they were issued
RequestsTo(run, api) == SelectSeq(run.requests, LAMBDA e : e.request.api = api)

\* C15: the directory listing is read page by page: the first request carries no
\* page token and each later request carries the token the previous response
\* returned, no page is requested twice, the listing ends at the first page
\* without a token and never asks for more pages than the directory has, and the
\* users of the run are then the users of all the pages, in page order, suspended
\* users included.
C15_DirectoryPagination ==
    \A r \in RunIds :
       LET dreq == RequestsTo(runs[r], "admin.users.list")
           all == Flatten(runs[r].directory)
       IN  /\ Len(dreq) <= Len(runs[r].directory)
           /\ \A k \in 1..Len(dreq) :
                 /\ dreq[k].request.pageToken =
                       IF k = 1 THEN NoToken
                       ELSE ServicePage(runs[r].directory,
                                        dreq[k - 1].request.pageToken).nextPageToken
                 /\ dreq[k].request.maxResults = DirMaxResults
                 /\ dreq[k].request.domain = runs[r].domain
                 /\ k < Len(dreq) => dreq[k].ok
                 /\ \A j \in 1..Len(dreq) :
                       j # k => dreq[j].request.pageToken # dreq[k].request.pageToken
           /\ runs[r].pc = "listing" =>
                 /\ Len(dreq) < Len(runs[r].directory)
                 /\ runs[r].dirUsers = Flatten(SubSeq(runs[r].directory, 1, Len(dreq)))
           /\ runs[r].pc \in {"loop", "scanning", "done"} =>
                 /\ Len(dreq) = Len(runs[r].directory)
                 /\ Len(runs[r].users) = Len(all)
                 /\ \A k \in 1..Len(all) :
                       /\ runs[r].users[k].email = all[k].primaryEmail
                       /\ runs[r].users[k].suspended = all[k].suspended

\* a listing of three pages, the second one empty, has been read to its end
C15_Witness ==
    \E r \in RunIds :
       /\ runs[r].pc = "loop"
       /\ Len(runs[r].directory) = 3
       /\ Len(RequestsTo(runs[r], "admin.users.list")) = 3
       /\ Len(runs[r].users) = 3
       /\ runs[r].users[1].suspended


\* C16: a scan is all-or-nothing and is not retried: the file requests of a user
\* are consecutive, start without a token and follow the tokens of the responses;
\* once a request for a user has failed no later request is for that user; no user
\* is scanned twice; a user whose scan failed has no entry in the results, and
\* totalFiles and the results are those of the scans that succeeded, whatever the
\* failed scans had collected.
C16_ScanAllOrNothing ==
    \A r \in RunIds :
       LET freq == RequestsTo(runs[r], "drive.files.list")
           scans == runs[r].scans
       IN  /\ \A k \in 1..Len(freq) :
                 /\ \A j \in 1..Len(freq) :
                       (j > k /\ ~freq[k].ok) =>
                          freq[j].request.subject # freq[k].request.subject
                 /\ freq[k].request.pageToken = NoToken =>
                       \A j \in 1..(k - 1) :
                          freq[j].request.subject # freq[k].request.subject
                 /\ freq[k].request.pageToken # NoToken =>
                       /\ k > 1
                       /\ freq[k - 1].ok
                       /\ freq[k - 1].request.subject = freq[k].request.subject
                       /\ freq[k - 1].request.pageToken # freq[k].request.pageToken
           /\ \A j, k \in 1..Len(scans) : j # k => scans[j].user # scans[k].user
           /\ \A k \in 1..Len(scans) :
                 ~scans[k].ok =>
                    \A e \in Range(runs[r].auditResults) : e.user # scans[k].user
           /\ runs[r].pc \in {"loop", "scanning", "done"} =>
                 /\ runs[r].totalFiles = SumOkFiles(scans)
                 /\ runs[r].auditResults = ResultsOfScans(scans, ActiveUsers(runs[r]))
           /\ runs[r].pc = "done" =>
                 /\ StoredDoc(runs[r]).totalFiles = SumOkFiles(scans)
                 /\ \A k \in 1..Len(scans) :
                       ~scans[k].ok =>
                          \A e \in Range(StoredDoc(runs[r]).results) :
                             e.user # scans[k].user

\* a finished call with a scan that failed on its second page after its first
\* page had returned a public file, and another scan that succeeded with files
C16_Witness ==
    \E r \in RunIds :
       /\ runs[r].pc = "done"
       /\ \E k \in 1..Len(runs[r].scans) :
             ~runs[r].scans[k].ok /\ runs[r].scans[k].partial # <<>>
       /\ runs[r].ret.totalFiles > 0


\* C17: every entry of results, in the run and in the stored document, has
\* fileCount at least 1 and equal to the number of its files; a user whose scan
\* succeeded without a public file has no entry and adds nothing to totalFiles,
\* which is the sum of the numbers of files of the scans that succeeded.
C17_EntriesHaveFiles ==
    \A r \in RunIds :
       LET scans == runs[r].scans
       IN  /\ \A e \in Range(runs[r].auditResults) :
                 e.fileCount >= 1 /\ e.fileCount = Len(e.files)
           /\ \A k \in 1..Len(scans) :
                 (scans[k].ok /\ scans[k].files = <<>>) =>
                    \A e \in Range(runs[r].auditResults) : e.user # scans[k].user
           /\ runs[r].pc \in {"loop", "scanning", "done"} =>
                 runs[r].totalFiles = SumOkFiles(scans)
           /\ runs[r].pc = "done" =>
                 /\ \A e \in Range(StoredDoc(runs[r]).results) :
                       e.fileCount >= 1 /\ e.fileCount = Len(e.files)
                 /\ \A k \in 1..Len(scans) :
                       (scans[k].ok /\ scans[k].files = <<>>) =>
                          \A e \in Range(StoredDoc(runs[r]).results) :
                             e.user # scans[k].user

\* a finished call with a scan that succeeded without a public file and a scan
\* that found two
C17_Witness ==
    \E r \in RunIds :
       /\ runs[r].pc = "done"
       /\ \E k \in 1..Len(runs[r].scans) :
             /\ runs[r].scans[k].ok
             /\ runs[r].scans[k].files = <<>>
       /\ \E e \in Range(StoredDoc(runs[r]).results) : e.fileCount = 2


\* s is t with some elements left out, the others in the same order
RECURSIVE IsSubseq(_, _)
IsSubseq(s, t) ==
    IF s = <<>> THEN TRUE
    ELSE IF t = <<>> THEN FALSE
    ELSE IF s[1] = t[1] THEN IsSubseq(Tail(s), Tail(t))
    ELSE IsSubseq(s, Tail(t))

\* The users of the entries of results, in order
ResultUsers(results) == [k \in 1..Len(results) |-> results[k].user]

\* C18: the entries of results are in the order of the directory listing: their
\* users are a subsequence of the emails of the listing, in the run and in the
\* stored document, and getAuditById and getAuditHistory return the document with
\* the entries in that order.
C18_ResultsInListingOrder ==
    \A r \in RunIds :
       LET emails == [k \in 1..Len(Flatten(runs[r].directory)) |->
                         Flatten(runs[r].directory)[k].primaryEmail]
       IN  /\ IsSubseq(ResultUsers(runs[r].auditResults), emails)
           /\ runs[r].pc = "done" =>
                 /\ IsSubseq(ResultUsers(StoredDoc(runs[r]).results), emails)
                 /\ StoredDoc(runs[r]).results = runs[r].auditResults
                 /\ AuditById(driveAudits, runs[r].ret.auditId).results =
                       runs[r].auditResults
                 /\ \E d \in Range(AuditHistory(driveAudits, [domain |-> runs[r].domain])) :
                       d._id = runs[r].ret.auditId /\ d.results = runs[r].auditResults
                 /\ \A d \in Range(AuditHistory(driveAudits, [none |-> TRUE])) :
                       d._id = runs[r].ret.auditId => d.results = runs[r].auditResults

\* a finished call with entries for two users, in the order of the listing
C18_Witness ==
    \E r \in RunIds :
       /\ runs[r].pc = "done"
       /\ ResultUsers(StoredDoc(runs[r]).results) = <<"a@x.com", "b@x.com">>


\* A sequence without the elements that repeat their predecessor
RECURSIVE Dedup(_)
Dedup(s) ==
    IF Len(s) <= 1 THEN s
    ELSE IF s[1] = s[2] THEN Dedup(Tail(s))
    ELSE <<s[1]>> \o Dedup(Tail(s))

\* C20: every file request of a run is made with the email of the user being
\* scanned as the impersonated subject: the subjects of the file requests, taken
\* in order, are the users scanned so far followed by the user under scan. The
\* subject is the administrator's only when the administrator is that user.
\* Every directory request is made with the administrator passed to the run as
\* subject.
C20_ImpersonatedSubjects ==
    \A r \in RunIds :
       LET freq == RequestsTo(runs[r], "drive.files.list")
           dreq == RequestsTo(runs[r], "admin.users.list")
           subjects == [k \in 1..Len(freq) |-> freq[k].request.subject]
           scanned == [k \in 1..Len(runs[r].scans) |-> runs[r].scans[k].user]
       IN  /\ \A k \in 1..Len(dreq) : dreq[k].request.subject = runs[r].adminUser
           /\ \A k \in 1..Len(freq) :
                 \E user \in Range(ActiveUsers(runs[r])) :
                    user.primaryEmail = freq[k].request.subject
           /\ runs[r].pc \in {"loop", "done"} => Dedup(subjects) = scanned
           /\ runs[r].pc = "scanning" =>
                 /\ runs[r].fetched = 0 => Dedup(subjects) = scanned
                 /\ runs[r].fetched > 0 =>
                       Dedup(subjects) = Append(scanned, runs[r].users[runs[r].i].email)

\* the administrator a@x.com has run an audit in which b@x.com and a@x.com itself
\* were scanned, each under its own identity
C20_Witness ==
    \E r \in RunIds :
       /\ runs[r].pc = "done"
       /\ runs[r].adminUser = "a@x.com"
       /\ \E k \in 1..Len(runs[r].requests) :
             /\ runs[r].requests[k].request.api = "drive.files.list"
             /\ runs[r].requests[k].request.subject = "b@x.com"
       /\ \E k \in 1..Len(runs[r].requests) :
             /\ runs[r].requests[k].request.api = "drive.files.list"
             /\ runs[r].requests[k].request.subject = "a@x.com"


----------------------------------------------------------------------------
(* Calls of runDomainAudit in flight together (SpecInterleaved) *)

\* C21: calls of runDomainAudit share no state: however the steps of two calls
\* are interleaved, every finished call has inserted one document of its own,
\* and that document is made of the call's own responses only: its domain is the
\* call's, totalUsers is the length of the directory listing the call was given,
\* the files of each scan are the public files of the listing the call was given
\* for that user, results and totalFiles are those of the call's own successful
\* scans. The document has the properties it has when the call runs alone:
\* totalFiles is the sum of fileCount, every entry has fileCount = Len(files) >= 1,
\* the entries are in listing order and the returned value agrees with it.
C21_RunsShareNoState ==
    /\ Len(driveAudits) = Cardinality({r \in RunIds : runs[r].pc = "done"})
    /\ \A r \in RunIds :
          runs[r].pc = "done" =>
             LET run == runs[r]
                 doc == StoredDoc(run)
                 all == Flatten(run.directory)
                 emails == [k \in 1..Len(all) |-> all[k].primaryEmail]
             IN  /\ Len(run.stored) = 1
                 /\ run.ret.auditId = run.stored[1]
                 /\ \A q \in RunIds \ {r} :
                       runs[q].pc = "done" => runs[q].stored # run.stored
                 /\ doc.domain = run.domain
                 /\ doc.totalUsers = Len(all)
                 /\ Len(run.scans) = Len(ActiveUsers(run))
                 /\ \A k \in 1..Len(run.scans) :
                       /\ run.scans[k].user = ActiveUsers(run)[k].primaryEmail
                       /\ run.scans[k].ok =>
                             run.scans[k].files =
                                MapFiles(FilterPublic(Flatten(run.scans[k].listing),
                                                      run.domain),
                                         run.scans[k].user)
                 /\ doc.results = ResultsOfScans(run.scans, ActiveUsers(run))
                 /\ doc.totalFiles = SumOkFiles(run.scans)
                 /\ doc.totalFiles = SumFileCount(doc.results)
                 /\ \A e \in Range(doc.results) :
                       e.fileCount >= 1 /\ e.fileCount = Len(e.files)
                 /\ IsSubseq(ResultUsers(doc.results), emails)
                 /\ run.ret.totalUsers = doc.totalUsers
                 /\ run.ret.totalFiles = doc.totalFiles
                 /\ run.ret.results = doc.results
                 /\ run.ret.usersWithPublicFiles = Len(doc.results)

\* two calls for different domains that both began before either had stored its
\* document, both finished, the first with four files of two users and the second
\* with two files of one user
C21_Witness ==
    /\ runs[1].pc = "done"
    /\ runs[2].pc = "done"
    /\ runs[1].startedAt = 0
    /\ runs[2].startedAt = 0
    /\ runs[1].domain # runs[2].domain
    /\ StoredDoc(runs[1]).totalFiles = 4
    /\ StoredDoc(runs[2]).totalFiles = 2
    /\ Len(StoredDoc(runs[1]).results) = 2
    /\ runs[1].stored # runs[2].stored

====
